---- MODULE Spec2Model ----
(***************************************************************************)
(* Model of the CRM kanban board (components/CRM.tsx), its remote store    *)
(* client (lib/supabase.ts) and the trial_registrations table.             *)
(*                                                                         *)
(* Strings that the code inspects character by character (lane names and   *)
(* the identifiers derived from them) are sequences of one-character       *)
(* strings, so that toLowerCase / replace(/\s+/g,'_') / trim are computed. *)
(***************************************************************************)
EXTENDS Integers, Sequences, FiniteSets, Bags, TLC

----------------------------------------------------------------------------
(* Bounds of the model                                                     *)

MaxOrder == 8          \* a lane is created only while max order + 1 <= MaxOrder
MaxInFlight == 1       \* status updates awaiting their answer at one time
MaxLaneIndex == 1 \* lanes are reordered within sorted positions 0..MaxLaneIndex
MaxDeepOrder == 7 \* like MaxOrder, for SpecRegistry
MaxCreated == 2        \* SpecRegistry: lanes created by the user present at one time
MaxTargetIndex == 1    \* SpecLeads: leads are moved to sorted positions 0..MaxTargetIndex
MaxRows == 4           \* SpecIntake: registrations are submitted while the table has fewer rows
MaxDragIndex == 2      \* SpecReorder: lanes are dragged within sorted positions 0..MaxDragIndex
MaxLogins == 1         \* SpecAuth: authenticateUser calls awaiting their answer at one time
MaxBoardIndex == 1     \* SpecBoard: lanes are reordered within sorted positions 0..MaxBoardIndex

----------------------------------------------------------------------------
(* Strings                                                                 *)

pending == <<"p","e","n","d","i","n","g">>
contacted == <<"c","o","n","t","a","c","t","e","d">>
confirmed == <<"c","o","n","f","i","r","m","e","d">>
completed == <<"c","o","m","p","l","e","t","e","d">>
enrolled == <<"e","n","r","o","l","l","e","d">>
no_show == <<"n","o","_","s","h","o","w">>
cancelled == <<"c","a","n","c","e","l","l","e","d">>

DefaultIds == {pending, contacted, confirmed, completed, enrolled, no_show, cancelled}

IsSpace(c) == c \in {" ", "\t"}

\* String.prototype.toLowerCase, on the alphabet of the names below
ToLowerChar(c) ==
  CASE c = "P" -> "p" [] c = "C" -> "c" [] c = "E" -> "e" [] c = "N" -> "n"
    [] c = "S" -> "s" [] c = "V" -> "v" [] c = "I" -> "i" [] c = "O" -> "o"
    [] OTHER -> c

toLowerCase(s) == [i \in 1..Len(s) |-> ToLowerChar(s[i])]

\* s.replace(/\s+/g, '_'): every maximal run of whitespace becomes one '_'
RECURSIVE replaceWhitespace(_)
replaceWhitespace(s) ==
  IF s = <<>> THEN <<>>
  ELSE IF IsSpace(Head(s))
       THEN IF Len(s) > 1 /\ IsSpace(s[2])
            THEN replaceWhitespace(Tail(s))
            ELSE <<"_">> \o replaceWhitespace(Tail(s))
       ELSE <<Head(s)>> \o replaceWhitespace(Tail(s))

\* !name.trim(): the name is empty or consists of whitespace only
IsBlank(s) == \A i \in 1..Len(s) : IsSpace(s[i])

\* faulty variant: the name is not lower-cased
slugify_KeepsCase(name) == replaceWhitespace(name)

\* newLaneName.toLowerCase().replace(/\s+/g, '_')
slugify(name) == replaceWhitespace(toLowerCase(name))

----------------------------------------------------------------------------
(* Program constants                                                       *)

NegInfinity == -1      \* Math.max() of no arguments; finite orders are >= 0

DefaultColor == "bg-indigo-500"
colorOptions == {"bg-indigo-500", "bg-purple-500"}

LoadError == "Erro ao carregar leads"
UpdateError == "Erro ao atualizar status do lead"

DEFAULT_FUNNEL_STAGES == <<
  [id |-> pending,   title |-> <<"N","o","v","o","s"," ","L","e","a","d","s">>,
   color |-> "bg-blue-500", editable |-> FALSE, order |-> 0],
  [id |-> contacted, title |-> <<"C","o","n","t","a","t","a","d","o","s">>,
   color |-> "bg-yellow-500", editable |-> FALSE, order |-> 1],
  [id |-> confirmed, title |-> <<"C","o","n","f","i","r","m","a","d","o","s">>,
   color |-> "bg-green-500", editable |-> FALSE, order |-> 2],
  [id |-> completed, title |-> <<"C","o","m","p","a","r","e","c","e","r","a","m">>,
   color |-> "bg-purple-500", editable |-> FALSE, order |-> 3],
  [id |-> enrolled,  title |-> <<"M","a","t","r","i","c","u","l","a","d","o","s">>,
   color |-> "bg-emerald-500", editable |-> FALSE, order |-> 4],
  [id |-> no_show,   title |-> <<"N","a","o"," ","C","o","m","p","a","r","e","c","e","r","a","m">>,
   color |-> "bg-red-500", editable |-> FALSE, order |-> 5],
  [id |-> cancelled, title |-> <<"C","a","n","c","e","l","a","d","o","s">>,
   color |-> "bg-gray-500", editable |-> FALSE, order |-> 6] >>

----------------------------------------------------------------------------
(* Inputs                                                                  *)

\* names the user types in the new-lane form
NameEmpty == <<>>
NameSpaces == <<" ", "\t">>
NameVip == <<"V","I","P">>
NameOpen == <<"O","p","e","n"," "," ","C","a","s","e">>
NamePending == <<"P","e","n","d","i","n","g">>
NameNoShow == <<"N","o"," ","\t","S","h","o","w">>

Names == {NameSpaces, NameVip, NamePending}
CustomNames == {NameSpaces, NameVip, NameOpen}

\* one name per default stage whose slug is that stage's identifier
CollidingNames ==
  {NamePending, NameNoShow,
   <<"C","o","n","t","a","c","t","e","d">>, <<"C","o","n","f","i","r","m","e","d">>,
   <<"C","o","m","p","l","e","t","e","d">>, <<"E","n","r","o","l","l","e","d">>,
   <<"C","a","n","c","e","l","l","e","d">>}

RegistryNames == CollidingNames \cup {NameSpaces}

UnknownLane == <<"g","h","o","s","t">>

NoStatus == <<>>       \* a stored status that is NULL or ''

\* rows of trial_registrations, in insertion order, before the board is opened
InitialStores ==
  { << [id |-> "l1", status |-> pending, created_at |-> 1],
       [id |-> "l2", status |-> s2, created_at |-> 2] >> :
      s2 \in {contacted, NoStatus} }

LanesDroppable == <<"l","a","n","e","s">>
NoDestination == [droppableId |-> <<>>, index |-> -1]   \* result.destination is null

----------------------------------------------------------------------------
(* State                                                                   *)

VARIABLES
  funnelStages,      \* the stage registry: entries in key insertion order
  leads,             \* the lead cache
  isLoading,
  error,
  newLaneName,
  newLaneColor,
  showNewLaneModal,
  store,             \* rows of trial_registrations, in insertion order
  updates,           \* bag of status updates issued and not yet settled
  loads,             \* bag of select-all requests issued and not yet settled
  lastCall,          \* history: the handler or step taken last, with its inputs
  isAuthenticated,   \* App: the in-memory authentication flag
  localStorage,      \* App: the item 'isAuthenticated' of the browser's storage
  logins,            \* App: bag of authenticateUser calls not yet settled
  effectPending,     \* App: the mount effect has not run yet
  path               \* App: the route the router is at

vars == <<funnelStages, leads, isLoading, error, newLaneName, newLaneColor,
          showNewLaneModal, store, updates, loads, lastCall,
          isAuthenticated, localStorage, logins, effectPending, path>>

authVars == <<isAuthenticated, localStorage, logins, effectPending, path>>
boardVars == <<funnelStages, leads, isLoading, error, newLaneName, newLaneColor,
               showNewLaneModal, store, updates, loads>>

NoItem == "(null)"     \* localStorage.getItem of a key that is not there

\* App has rendered <CRM/>: the user is logged in and the router is at /crm
CrmMounted ==
  /\ isAuthenticated = TRUE
  /\ localStorage = "true"
  /\ logins = EmptyBag
  /\ effectPending = FALSE
  /\ path = "/crm"

formVars == <<newLaneName, newLaneColor, showNewLaneModal>>
remoteVars == <<store, updates, loads>>

----------------------------------------------------------------------------
(* The stage registry                                                      *)

Range(f) == {f[i] : i \in DOMAIN f}

StageIds(fs) == {fs[i].id : i \in DOMAIN fs}

HasStage(fs, id) == id \in StageIds(fs)

\* funnelStages[id]
Stage(fs, id) == CHOOSE e \in Range(fs) : e.id = id

Orders(fs) == {fs[i].order : i \in DOMAIN fs}

\* the comparator (a, b) => a.order - b.order is negative
Before(a, b) == a.order < b.order

\* Array.prototype.sort is stable: an entry goes after the entries that do
\* not compare greater than it
RECURSIVE InsertSorted(_, _)
InsertSorted(sorted, e) ==
  IF sorted = <<>> THEN <<e>>
  ELSE IF Before(e, Head(sorted))
       THEN <<e>> \o sorted
       ELSE <<Head(sorted)>> \o InsertSorted(Tail(sorted), e)

RECURSIVE SortEntries(_)
SortEntries(fs) ==
  IF fs = <<>> THEN <<>>
  ELSE InsertSorted(SortEntries(SubSeq(fs, 1, Len(fs) - 1)), fs[Len(fs)])

getSortedStages(fs) == SortEntries(fs)

\* sortedStages.findIndex(([id]) => id === laneId), 0-based, -1 if absent
FindIndex(sorted, laneId) ==
  IF \E i \in DOMAIN sorted : sorted[i].id = laneId
  THEN (CHOOSE i \in DOMAIN sorted : sorted[i].id = laneId) - 1
  ELSE -1

\* Math.max(...Object.values(funnelStages).map(stage => stage.order))
MaxOrderOf(fs) ==
  IF fs = <<>> THEN NegInfinity
  ELSE CHOOSE m \in Orders(fs) : \A o \in Orders(fs) : o <= m

\* maxOrder + 1 (-Infinity + 1 is -Infinity)
PlusOne(x) == IF x = NegInfinity THEN NegInfinity ELSE x + 1

\* { ...prev, [id]: entry }: an existing key keeps its place, a new one is last
PutStage(fs, entry) ==
  IF HasStage(fs, entry.id)
  THEN [i \in DOMAIN fs |-> IF fs[i].id = entry.id THEN entry ELSE fs[i]]
  ELSE Append(fs, entry)

\* delete newStages[laneId]
RemoveStage(fs, laneId) == SelectSeq(fs, LAMBDA e : e.id # laneId)

\* arr.splice(i, 1), 0-based i
SpliceOut(arr, i) == SubSeq(arr, 1, i) \o SubSeq(arr, i + 2, Len(arr))

\* faulty variant: the removed entry is not put back
SpliceIn_Dropped(arr, i, x) == arr

\* faulty variant: the entry is put back one position too far to the right
SpliceIn_OneTooFar(arr, i, x) ==
  IF i + 1 > Len(arr) THEN arr \o <<x>>
  ELSE SubSeq(arr, 1, i + 1) \o <<x>> \o SubSeq(arr, i + 2, Len(arr))

\* arr.splice(i, 0, x), 0-based i
SpliceIn(arr, i, x) == SubSeq(arr, 1, i) \o <<x>> \o SubSeq(arr, i + 1, Len(arr))

\* faulty variant: the renumbering starts at 1
Renumber_OneBased(fs, entries) ==
  [i \in DOMAIN fs |->
     IF \E k \in DOMAIN entries : entries[k].id = fs[i].id
     THEN [fs[i] EXCEPT !.order =
             CHOOSE k \in DOMAIN entries : entries[k].id = fs[i].id]
     ELSE fs[i]]

\* stageEntries.forEach(([stageId], index) => updatedStages[stageId].order = index)
Renumber(fs, entries) ==
  [i \in DOMAIN fs |->
     IF \E k \in DOMAIN entries : entries[k].id = fs[i].id
     THEN [fs[i] EXCEPT !.order =
             (CHOOSE k \in DOMAIN entries : entries[k].id = fs[i].id) - 1]
     ELSE fs[i]]

ReorderLanes(fs, src, dst) ==
  LET sorted == getSortedStages(fs)
      removed == sorted[src + 1]
      entries == SpliceIn(SpliceOut(sorted, src), dst, removed)
  IN  Renumber(fs, entries)

----------------------------------------------------------------------------
(* The lead cache                                                          *)

getLeadsByStatus(ls, status) == SelectSeq(ls, LAMBDA l : l.status = status)

\* faulty variant: the status is written to every lead of the list
PatchLead_EveryLead(ls, id, status) ==
  [i \in DOMAIN ls |-> [ls[i] EXCEPT !.status = status]]

\* prevLeads.map(lead => lead.id === id ? { ...lead, status } : lead)
PatchLead(ls, id, status) ==
  [i \in DOMAIN ls |-> IF ls[i].id = id THEN [ls[i] EXCEPT !.status = status] ELSE ls[i]]

\* faulty variant: the leads of the deleted lane leave the cache with it
ReassignLeads_Dropped(ls, laneId) ==
  SelectSeq(ls, LAMBDA l : l.status # laneId)

\* faulty variant: every lead is sent to 'pending', whatever its status
ReassignLeads_Everyone(ls, laneId) ==
  [i \in DOMAIN ls |-> [ls[i] EXCEPT !.status = pending]]

\* prevLeads.map(lead => lead.status === laneId ? { ...lead, status: 'pending' } : lead)
ReassignLeads(ls, laneId) ==
  [i \in DOMAIN ls |->
     IF ls[i].status = laneId THEN [ls[i] EXCEPT !.status = pending] ELSE ls[i]]

\* faulty variant: the stored status is copied as it is
FromRows_NoDefault(rows) ==
  [i \in DOMAIN rows |-> rows[i]]

\* data.map(lead => ({ ...lead, id: lead.id!, status: lead.status || 'pending' }))
FromRows(rows) ==
  [i \in DOMAIN rows |->
     [rows[i] EXCEPT
        !.status = IF rows[i].status = NoStatus THEN pending ELSE rows[i].status]]

----------------------------------------------------------------------------
(* The remote store                                                        *)

\* update trial_registrations set status = s where id = leadId
UpdateRow(rows, leadId, s) ==
  [i \in DOMAIN rows |->
     IF rows[i].id = leadId THEN [rows[i] EXCEPT !.status = s] ELSE rows[i]]

\* .insert into a list kept in created_at descending order
RECURSIVE InsertByCreated(_, _)
InsertByCreated(sorted, r) ==
  IF sorted = <<>> THEN <<r>>
  ELSE IF r.created_at > Head(sorted).created_at THEN <<r>> \o sorted
  ELSE <<Head(sorted)>> \o InsertByCreated(Tail(sorted), r)

\* .select('*').order('created_at', { ascending: false })
RECURSIVE SelectAll(_)
SelectAll(rows) ==
  IF rows = <<>> THEN <<>>
  ELSE InsertByCreated(SelectAll(Tail(rows)), Head(rows))

\* gen_random_uuid() for the n-th row of the table
NewId(n) == <<"l1", "l2", "l3", "l4", "l5", "l6">>[n]

\* NOW(): later than the creation time of every row there is
Now(rows) ==
  IF rows = <<>> THEN 1
  ELSE 1 + (CHOOSE t \in {rows[i].created_at : i \in DOMAIN rows} :
              \A i \in DOMAIN rows : rows[i].created_at <= t)

\* a column the payload names takes the payload's value, else its DEFAULT
Column(data, name, default) ==
  IF name \in DOMAIN data THEN data[name] ELSE default

\* faulty variant: the status column has no default
InsertRow_NoDefault(rows, data) ==
  Append(rows, [id |-> Column(data, "id", NewId(Len(rows) + 1)),
                status |-> Column(data, "status", NoStatus),
                created_at |-> Column(data, "created_at", Now(rows))])

\* insert into trial_registrations: the columns of the row the board reads
InsertRow(rows, data) ==
  Append(rows, [id |-> Column(data, "id", NewId(Len(rows) + 1)),
                status |-> Column(data, "status", pending),
                created_at |-> Column(data, "created_at", Now(rows))])

\* the payloads of createTrialRegistration: the fields its parameter type
\* leaves, Omit<TrialRegistration, 'id' | 'created_at' | 'status'>
Registrations == { [full_name |-> n, age |-> a] : n \in {"Ana"}, a \in {8, 25} }

StoredStatus(rows, leadId) == (CHOOSE r \in Range(rows) : r.id = leadId).status

Request(leadId, s, phase) == [id |-> leadId, status |-> s, phase |-> phase]
LoadRequest(phase, rows) == [phase |-> phase, rows |-> rows]
One(x) == SetToBag({x})

Call(op, args) == [op |-> op, args |-> args]

\* await updateTrialRegistrationStatus(id, status): the request leaves
IssueUpdate(leadId, s) == updates' = updates (+) One(Request(leadId, s, "sent"))

----------------------------------------------------------------------------
(* Initial state: CRM has mounted and its effect has called loadLeads      *)

Init ==
  /\ funnelStages = DEFAULT_FUNNEL_STAGES
  /\ leads = <<>>
  /\ isLoading = TRUE
  /\ error = ""
  /\ newLaneName = NameEmpty
  /\ newLaneColor = DefaultColor
  /\ showNewLaneModal = FALSE
  /\ store \in InitialStores
  /\ updates = EmptyBag
  /\ loads = One(LoadRequest("sent", <<>>))
  /\ lastCall = Call("mount", <<>>)
  /\ CrmMounted

----------------------------------------------------------------------------
(* loadLeads and the refresh button                                        *)

\* faulty variant: the loading flag is not set when the load starts
LoadLeads_NoFlag ==
  /\ lastCall' = Call("loadLeads", <<>>)
  /\ UNCHANGED authVars
  /\ ~isLoading
  /\ loads' = loads (+) One(LoadRequest("sent", <<>>))
  /\ UNCHANGED <<funnelStages, leads, isLoading, error, formVars, store, updates>>

\* onClick={loadLeads}, up to the await
LoadLeads ==
  /\ lastCall' = Call("loadLeads", <<>>)
  /\ UNCHANGED authVars
  /\ ~isLoading
  /\ isLoading' = TRUE
  /\ loads' = loads (+) One(LoadRequest("sent", <<>>))
  /\ UNCHANGED <<funnelStages, leads, error, formVars, store, updates>>

\* the store answers the select-all with its rows, newest first
StoreSelect ==
  /\ lastCall' = Call("StoreSelect", <<>>)
  /\ UNCHANGED authVars
  /\ BagIn(LoadRequest("sent", <<>>), loads)
  /\ loads' = (loads (-) One(LoadRequest("sent", <<>>))) (+) One(LoadRequest("data", SelectAll(store)))
  /\ UNCHANGED <<funnelStages, leads, isLoading, error, formVars, store, updates>>

\* the select-all fails
StoreSelectFail ==
  /\ lastCall' = Call("StoreSelectFail", <<>>)
  /\ UNCHANGED authVars
  /\ BagIn(LoadRequest("sent", <<>>), loads)
  /\ loads' = (loads (-) One(LoadRequest("sent", <<>>))) (+) One(LoadRequest("err", <<>>))
  /\ UNCHANGED <<funnelStages, leads, isLoading, error, formVars, store, updates>>

\* faulty variant: a load that succeeds clears the error message
LoadSettle_ClearsError(req) ==
  /\ lastCall' = Call("LoadSettle", <<req>>)
  /\ UNCHANGED authVars
  /\ BagIn(req, loads)
  /\ req.phase # "sent"
  /\ loads' = loads (-) One(req)
  /\ IF req.phase = "data"
     THEN leads' = FromRows(req.rows) /\ error' = ""
     ELSE leads' = leads /\ error' = LoadError
  /\ isLoading' = FALSE
  /\ UNCHANGED <<funnelStages, formVars, store, updates>>

\* faulty variant: a failed load empties the cache and leaves the flag set
LoadSettle_ClearsOnError(req) ==
  /\ lastCall' = Call("LoadSettle", <<req>>)
  /\ UNCHANGED authVars
  /\ BagIn(req, loads)
  /\ req.phase # "sent"
  /\ loads' = loads (-) One(req)
  /\ IF req.phase = "data"
     THEN leads' = FromRows(req.rows) /\ error' = error /\ isLoading' = FALSE
     ELSE leads' = <<>> /\ error' = LoadError /\ isLoading' = isLoading
  /\ UNCHANGED <<funnelStages, formVars, store, updates>>

\* loadLeads after the await: try / catch / finally
LoadSettle(req) ==
  /\ lastCall' = Call("LoadSettle", <<req>>)
  /\ UNCHANGED authVars
  /\ BagIn(req, loads)
  /\ req.phase # "sent"
  /\ loads' = loads (-) One(req)
  /\ IF req.phase = "data"
     THEN leads' = FromRows(req.rows) /\ error' = error
     ELSE leads' = leads /\ error' = LoadError
  /\ isLoading' = FALSE
  /\ UNCHANGED <<funnelStages, formVars, store, updates>>

----------------------------------------------------------------------------
(* The intake form                                                         *)

\* createTrialRegistration(data): the insert succeeds and the row is returned
createTrialRegistration(data, maxRows) ==
  /\ lastCall' = Call("createTrialRegistration", <<data, "ok">>)
  /\ UNCHANGED authVars
  /\ Len(store) < maxRows
  /\ store' = InsertRow(store, data)
  /\ UNCHANGED <<funnelStages, leads, isLoading, error, formVars, updates, loads>>

\* createTrialRegistration(data): the insert fails and the error is thrown
createTrialRegistrationFail(data) ==
  /\ lastCall' = Call("createTrialRegistration", <<data, "err">>)
  /\ UNCHANGED authVars
  /\ UNCHANGED <<funnelStages, leads, isLoading, error, formVars, store, updates, loads>>

----------------------------------------------------------------------------
(* The new-lane form                                                       *)

OpenNewLaneModal ==
  /\ lastCall' = Call("OpenNewLaneModal", <<>>)
  /\ UNCHANGED authVars
  /\ ~isLoading
  /\ ~showNewLaneModal
  /\ showNewLaneModal' = TRUE
  /\ UNCHANGED <<funnelStages, leads, isLoading, error, newLaneName, newLaneColor, remoteVars>>

CloseNewLaneModal ==
  /\ lastCall' = Call("CloseNewLaneModal", <<>>)
  /\ UNCHANGED authVars
  /\ ~isLoading
  /\ showNewLaneModal
  /\ showNewLaneModal' = FALSE
  /\ UNCHANGED <<funnelStages, leads, isLoading, error, newLaneName, newLaneColor, remoteVars>>

SetNewLaneName(name) ==
  /\ lastCall' = Call("setNewLaneName", <<>>)
  /\ UNCHANGED authVars
  /\ ~isLoading
  /\ showNewLaneModal
  /\ newLaneName' = name
  /\ UNCHANGED <<funnelStages, leads, isLoading, error, newLaneColor, showNewLaneModal, remoteVars>>

SetNewLaneColor(color) ==
  /\ lastCall' = Call("setNewLaneColor", <<>>)
  /\ UNCHANGED authVars
  /\ ~isLoading
  /\ showNewLaneModal
  /\ newLaneColor' = color
  /\ UNCHANGED <<funnelStages, leads, isLoading, error, newLaneName, showNewLaneModal, remoteVars>>

----------------------------------------------------------------------------
(* Stage operations                                                        *)

NewLane(fs, name, color) ==
  [id |-> slugify(name), title |-> name, color |-> color, editable |-> TRUE,
   order |-> PlusOne(MaxOrderOf(fs))]

CreateLane(fs, name, color) == PutStage(fs, NewLane(fs, name, color))

EditableIds(fs) == {fs[i].id : i \in {j \in DOMAIN fs : fs[j].editable}}

handleCreateNewLane(limit, maxCreated) ==
  /\ lastCall' = Call("handleCreateNewLane", <<newLaneName, newLaneColor>>)
  /\ UNCHANGED authVars
  /\ ~isLoading
  /\ showNewLaneModal
  /\ IF IsBlank(newLaneName)
     THEN UNCHANGED <<funnelStages, formVars>>
     ELSE /\ PlusOne(MaxOrderOf(funnelStages)) <= limit
          /\ Cardinality(EditableIds(funnelStages) \cup {slugify(newLaneName)}) <= maxCreated
          /\ funnelStages' = CreateLane(funnelStages, newLaneName, newLaneColor)
          /\ newLaneName' = NameEmpty
          /\ newLaneColor' = DefaultColor
          /\ showNewLaneModal' = FALSE
  /\ UNCHANGED <<leads, isLoading, error, remoteVars>>

\* faulty variant: the editable flag is not looked at
IsEditable_AnyStage(fs, laneId) == HasStage(fs, laneId)

\* funnelStages[laneId]?.editable
IsEditable(fs, laneId) == HasStage(fs, laneId) /\ Stage(fs, laneId).editable

\* faulty variant: the reassignment is written to the remote store as well
handleDeleteLane_Remote(laneId) ==
  /\ lastCall' = Call("handleDeleteLane", <<laneId>>)
  /\ UNCHANGED authVars
  /\ ~isLoading
  /\ IF ~IsEditable(funnelStages, laneId)
     THEN UNCHANGED <<funnelStages, leads, store>>
     ELSE /\ leads' = ReassignLeads(leads, laneId)
          /\ funnelStages' = RemoveStage(funnelStages, laneId)
          /\ store' = [i \in DOMAIN store |->
                         IF store[i].status = laneId
                         THEN [store[i] EXCEPT !.status = pending] ELSE store[i]]
  /\ UNCHANGED <<isLoading, error, formVars, updates, loads>>

handleDeleteLane(laneId) ==
  /\ lastCall' = Call("handleDeleteLane", <<laneId>>)
  /\ UNCHANGED authVars
  /\ ~isLoading
  /\ IF ~IsEditable(funnelStages, laneId)
     THEN UNCHANGED <<funnelStages, leads>>
     ELSE /\ leads' = ReassignLeads(leads, laneId)
          /\ funnelStages' = RemoveStage(funnelStages, laneId)
  /\ UNCHANGED <<isLoading, error, formVars, remoteVars>>

\* faulty variant: the neighbour keeps its order value
SwapOrders_OneWay(fs, laneId, targetLaneId) ==
  [i \in DOMAIN fs |->
     IF fs[i].id = laneId
     THEN [fs[i] EXCEPT !.order = Stage(fs, targetLaneId).order]
     ELSE fs[i]]

SwapOrders(fs, laneId, targetLaneId) ==
  LET currentOrder == Stage(fs, laneId).order
      targetOrder == Stage(fs, targetLaneId).order
  IN  [i \in DOMAIN fs |->
         IF fs[i].id = laneId THEN [fs[i] EXCEPT !.order = targetOrder]
         ELSE IF fs[i].id = targetLaneId THEN [fs[i] EXCEPT !.order = currentOrder]
         ELSE fs[i]]

MoveLaneResult(fs, laneId, direction) ==
  LET sortedStages == getSortedStages(fs)
      currentIndex == FindIndex(sortedStages, laneId)
      newIndex == IF direction = "left" THEN currentIndex - 1 ELSE currentIndex + 1
  IN  IF currentIndex = -1 THEN fs
      ELSE IF newIndex < 0 \/ newIndex >= Len(sortedStages) THEN fs
      ELSE SwapOrders(fs, laneId, sortedStages[newIndex + 1].id)

\* faulty variant: the leads are loaded again after the lanes have moved
moveLane_Reloads(laneId, direction) ==
  /\ lastCall' = Call("moveLane", <<laneId, direction>>)
  /\ UNCHANGED authVars
  /\ ~isLoading
  /\ funnelStages' = MoveLaneResult(funnelStages, laneId, direction)
  /\ isLoading' = TRUE
  /\ loads' = loads (+) One(LoadRequest("sent", <<>>))
  /\ UNCHANGED <<leads, error, formVars, store, updates>>

moveLane(laneId, direction) ==
  /\ lastCall' = Call("moveLane", <<laneId, direction>>)
  /\ UNCHANGED authVars
  /\ ~isLoading
  /\ funnelStages' = MoveLaneResult(funnelStages, laneId, direction)
  /\ UNCHANGED <<leads, isLoading, error, formVars, remoteVars>>

----------------------------------------------------------------------------
(* Lead moves                                                              *)

\* moveLeadToStatus up to the await
moveLeadToStatus(leadId, newStatus) ==
  /\ lastCall' = Call("moveLeadToStatus", <<leadId, newStatus>>)
  /\ UNCHANGED authVars
  /\ ~isLoading
  /\ BagCardinality(updates) < MaxInFlight
  /\ IssueUpdate(leadId, newStatus)
  /\ UNCHANGED <<funnelStages, leads, isLoading, error, formVars, store, loads>>

\* the store applies an update and answers success
StoreUpdate(req) ==
  /\ lastCall' = Call("StoreUpdate", <<req>>)
  /\ UNCHANGED authVars
  /\ BagIn(req, updates)
  /\ req.phase = "sent"
  /\ store' = UpdateRow(store, req.id, req.status)
  /\ updates' = (updates (-) One(req)) (+) One([req EXCEPT !.phase = "ok"])
  /\ UNCHANGED <<funnelStages, leads, isLoading, error, formVars, loads>>

\* the update fails
StoreUpdateFail(req) ==
  /\ lastCall' = Call("StoreUpdateFail", <<req>>)
  /\ UNCHANGED authVars
  /\ BagIn(req, updates)
  /\ req.phase = "sent"
  /\ updates' = (updates (-) One(req)) (+) One([req EXCEPT !.phase = "err"])
  /\ UNCHANGED <<funnelStages, leads, isLoading, error, formVars, store, loads>>

\* faulty variant: the cache is patched before the outcome is looked at
UpdateSettle_PatchFirst(req) ==
  /\ lastCall' = Call("UpdateSettle", <<req>>)
  /\ UNCHANGED authVars
  /\ BagIn(req, updates)
  /\ req.phase # "sent"
  /\ updates' = updates (-) One(req)
  /\ leads' = PatchLead(leads, req.id, req.status)
  /\ error' = IF req.phase = "ok" THEN error ELSE UpdateError
  /\ UNCHANGED <<funnelStages, isLoading, formVars, store, loads>>

\* moveLeadToStatus / handleDragEnd after the await: setLeads or catch
UpdateSettle(req) ==
  /\ lastCall' = Call("UpdateSettle", <<req>>)
  /\ UNCHANGED authVars
  /\ BagIn(req, updates)
  /\ req.phase # "sent"
  /\ updates' = updates (-) One(req)
  /\ IF req.phase = "ok"
     THEN leads' = PatchLead(leads, req.id, req.status) /\ error' = error
     ELSE leads' = leads /\ error' = UpdateError
  /\ UNCHANGED <<funnelStages, isLoading, formVars, store, loads>>

----------------------------------------------------------------------------
(* Drag and drop                                                           *)

DropResult(type, draggableId, srcId, srcIndex, destination) ==
  [type |-> type, draggableId |-> draggableId,
   source |-> [droppableId |-> srcId, index |-> srcIndex],
   destination |-> destination]

Destination(id, index) == [droppableId |-> id, index |-> index]

LaneDraggableId(id) == <<"l","a","n","e","-">> \o id

\* faulty variant: only a lane drag is checked for its destination
HasDestination_LanesOnly(result) ==
  result.destination # NoDestination \/ result.type # "LANE"

\* result.destination is not null
HasDestination(result) == result.destination # NoDestination

\* faulty variant: any drop on the lane the lead is in counts as the same place
SamePlace_SameLane(result) ==
  result.source.droppableId = result.destination.droppableId

\* faulty variant: the index comparison is inverted
SamePlace_OtherIndex(result) ==
  /\ result.source.droppableId = result.destination.droppableId
  /\ result.source.index # result.destination.index

\* source.droppableId === destination.droppableId && source.index === destination.index
SamePlace(result) ==
  /\ result.source.droppableId = result.destination.droppableId
  /\ result.source.index = result.destination.index

handleDragEnd(result) ==
  /\ lastCall' = Call("handleDragEnd", <<result>>)
  /\ UNCHANGED authVars
  /\ ~isLoading
  /\ IF ~HasDestination(result)
     THEN UNCHANGED <<funnelStages, leads, error, remoteVars>>
     ELSE IF result.type = "LANE"
     THEN /\ funnelStages' =
               ReorderLanes(funnelStages, result.source.index, result.destination.index)
          /\ UNCHANGED <<leads, error, remoteVars>>
     ELSE IF SamePlace(result)
     THEN UNCHANGED <<funnelStages, leads, error, remoteVars>>
     ELSE /\ BagCardinality(updates) < MaxInFlight
          /\ IssueUpdate(result.draggableId, result.destination.droppableId)
          /\ UNCHANGED <<funnelStages, leads, error, store, loads>>
  /\ UNCHANGED <<isLoading, formVars>>

----------------------------------------------------------------------------
(* What the rendered board lets the user do                                *)

LeadAt(ls, status, index) == getLeadsByStatus(ls, status)[index + 1]

\* lane drags: source and destination are positions of the sorted lane list
LaneDrops(fs, maxIndex) ==
  LET sorted == getSortedStages(fs)
      top == IF Len(sorted) - 1 < maxIndex THEN Len(sorted) - 1 ELSE maxIndex
  IN  { DropResult("LANE", LaneDraggableId(sorted[s + 1].id), LanesDroppable, s, d) :
          s \in 0..top,
          d \in {NoDestination} \cup {Destination(LanesDroppable, k) : k \in 0..top} }

\* lead drags: a rendered card, dropped nowhere or at a position of a lane
LeadDrops(fs, ls, targets) ==
  UNION { UNION { { DropResult("LEAD", LeadAt(ls, src, i).id, src, i, d) :
                    d \in {NoDestination} \cup
                          UNION { { Destination(dst, k) :
                                    k \in 0..(Len(getLeadsByStatus(ls, dst))
                                              - (IF dst = src THEN 1 ELSE 0)) } :
                                  dst \in targets } } :
                  i \in 0..(Len(getLeadsByStatus(ls, src)) - 1) } :
          src \in StageIds(fs) }

\* the status buttons of a rendered card offer the other stages
LeadMoves(fs, ls, targets) ==
  { <<ls[i].id, st>> : i \in { j \in DOMAIN ls : HasStage(fs, ls[j].status) },
                       st \in targets } \ { <<ls[i].id, ls[i].status>> : i \in DOMAIN ls }

\* the lanes at the first positions of the sorted list
FirstLanes(fs, maxIndex) ==
  LET sorted == getSortedStages(fs)
  IN  { sorted[i].id : i \in { j \in DOMAIN sorted : j - 1 <= maxIndex } }

\* arrow presses: <<lane, direction>> for a lane at one of the first positions of
\* the sorted list moving within them, the last lane moving right, and a lane
\* that is not there
ArrowMoves(fs, maxIndex) ==
  LET sorted == getSortedStages(fs)
      n == Len(sorted)
  IN  { <<sorted[i].id, "left">> : i \in { j \in 1..n : j - 1 <= maxIndex } }
      \cup { <<sorted[i].id, "right">> : i \in { j \in 1..n : j < n /\ j <= maxIndex } }
      \cup { <<sorted[i].id, "right">> : i \in { j \in 1..n : j = n } }
      \cup { <<UnknownLane, "left">> }

----------------------------------------------------------------------------
(* Steps shared by the specifications                                      *)

FirstLoad ==
  \/ StoreSelect
  \/ StoreSelectFail
  \/ \E req \in BagToSet(loads) : LoadSettle(req)

----------------------------------------------------------------------------
(* SpecStages: the stage registry under creation, deletion and reordering. *)
(* The rows of the store may carry the identifier of a lane created in an  *)
(* earlier session: statuses persist, the registry does not.               *)

vip == slugify(NameVip)
open_case == slugify(NameOpen)

StageStores ==
  { << [id |-> "l1", status |-> contacted, created_at |-> 1],
       [id |-> "l2", status |-> vip, created_at |-> 2],
       [id |-> "l3", status |-> pending, created_at |-> 3] >> }

InitStages ==
  /\ funnelStages = DEFAULT_FUNNEL_STAGES
  /\ leads = <<>>
  /\ isLoading = TRUE
  /\ error = ""
  /\ newLaneName = NameEmpty
  /\ newLaneColor = DefaultColor
  /\ showNewLaneModal = FALSE
  /\ store \in StageStores
  /\ updates = EmptyBag
  /\ loads = One(LoadRequest("sent", <<>>))
  /\ lastCall = Call("mount", <<>>)
  /\ CrmMounted

\* the lanes handleDeleteLane is called on: the editable ones, whose delete
\* button is rendered, the first lane and a lane that is not there
DeleteInputs(fs) == EditableIds(fs) \cup FirstLanes(fs, 0) \cup {UnknownLane}

StageStep(names) ==
  \/ FirstLoad
  \/ OpenNewLaneModal
  \/ \E name \in names : SetNewLaneName(name)
  \/ handleCreateNewLane(MaxOrder, Cardinality(CustomNames))
  \/ \E laneId \in DeleteInputs(funnelStages) : handleDeleteLane(laneId)
  \/ \E m \in ArrowMoves(funnelStages, MaxLaneIndex) : moveLane(m[1], m[2])
  \/ \E result \in LaneDrops(funnelStages, MaxLaneIndex) : handleDragEnd(result)

NextStages == StageStep(Names)

SpecStages == InitStages /\ [][NextStages]_vars

\* SpecCustom: the same, where the user types only names whose identifier is
\* not in the registry, so every created lane has an identifier of its own
FreshNames(fs) == {n \in CustomNames : IsBlank(n) \/ ~HasStage(fs, slugify(n))}

NextCustom ==
  \/ StageStep(FreshNames(funnelStages))
  \/ CloseNewLaneModal
  \/ \E color \in colorOptions : SetNewLaneColor(color)

SpecCustom == InitStages /\ [][NextCustom]_vars

----------------------------------------------------------------------------
(* SpecRegistry: creation and deletion only, with a name for every default *)
(* stage whose slug is that stage's identifier.                            *)

NextRegistry ==
  \/ FirstLoad
  \/ OpenNewLaneModal
  \/ \E name \in RegistryNames : SetNewLaneName(name)
  \/ handleCreateNewLane(MaxDeepOrder, MaxCreated)
  \/ \E laneId \in DeleteInputs(funnelStages) : handleDeleteLane(laneId)

SpecRegistry == InitStages /\ [][NextRegistry]_vars

----------------------------------------------------------------------------
(* SpecLeads: loads, lead moves and lead drags against the remote store.   *)
(* Leads are moved to the lanes at positions 0..MaxTargetIndex.            *)

RemoteStep ==
  \/ StoreSelect
  \/ StoreSelectFail
  \/ \E req \in BagToSet(loads) : LoadSettle(req)
  \/ \E req \in BagToSet(updates) : StoreUpdate(req)
  \/ \E req \in BagToSet(updates) : StoreUpdateFail(req)
  \/ \E req \in BagToSet(updates) : UpdateSettle(req)

NextLeads ==
  \/ LoadLeads
  \/ RemoteStep
  \/ \E m \in LeadMoves(funnelStages, leads, FirstLanes(funnelStages, MaxTargetIndex)) :
        moveLeadToStatus(m[1], m[2])
  \/ \E result \in LeadDrops(funnelStages, leads, FirstLanes(funnelStages, MaxTargetIndex))
                   \cup LaneDrops(funnelStages, 0) :
        handleDragEnd(result)

SpecLeads == Init /\ [][NextLeads]_vars

----------------------------------------------------------------------------
(* SpecIntake: registrations arrive from the public form while the board   *)
(* loads and refreshes.                                                    *)

NextIntake ==
  \/ LoadLeads
  \/ FirstLoad
  \/ \E data \in Registrations : createTrialRegistration(data, MaxRows)
  \/ \E data \in Registrations : createTrialRegistrationFail(data)

SpecIntake == Init /\ [][NextIntake]_vars

----------------------------------------------------------------------------
(* SpecBoard: the board operations together, after the load on mount: lead *)
(* moves against the remote store and creation, deletion and reordering of *)
(* lanes.                                                                  *)
(* The user creates the lane VIP; leads are moved to the lanes created by  *)
(* the user.                                                               *)

BoardStores ==
  { << [id |-> "l1", status |-> contacted, created_at |-> 1],
       [id |-> "l2", status |-> vip, created_at |-> 2] >> }

InitBoard ==
  /\ funnelStages = DEFAULT_FUNNEL_STAGES
  /\ leads = <<>>
  /\ isLoading = TRUE
  /\ error = ""
  /\ newLaneName = NameEmpty
  /\ newLaneColor = DefaultColor
  /\ showNewLaneModal = FALSE
  /\ store \in BoardStores
  /\ updates = EmptyBag
  /\ loads = One(LoadRequest("sent", <<>>))
  /\ lastCall = Call("mount", <<>>)
  /\ CrmMounted

NextBoard ==
  \/ RemoteStep
  \/ OpenNewLaneModal
  \/ SetNewLaneName(NameVip)
  \/ handleCreateNewLane(MaxOrder, 1)
  \/ \E laneId \in DeleteInputs(funnelStages) : handleDeleteLane(laneId)
  \/ \E m \in ArrowMoves(funnelStages, MaxBoardIndex) : moveLane(m[1], m[2])
  \/ \E m \in LeadMoves(funnelStages, leads, EditableIds(funnelStages)) :
        moveLeadToStatus(m[1], m[2])
  \/ \E result \in LaneDrops(funnelStages, MaxBoardIndex)
                   \cup LeadDrops(funnelStages, leads, EditableIds(funnelStages)) :
        handleDragEnd(result)

SpecBoard == InitBoard /\ [][NextBoard]_vars

----------------------------------------------------------------------------
(* SpecEmptied: the user works through the board from the left, typing the *)
(* title of the leftmost default lane, whose slug is that lane's           *)
(* identifier, and a name of their own once no default lane is left; the   *)
(* lanes the user has created are deleted or moved with the arrows.        *)

LeftmostNames(fs) ==
  LET sorted == getSortedStages(fs)
      defaults == {i \in DOMAIN sorted : ~sorted[i].editable}
  IN  IF defaults = {} THEN {NameVip, NameOpen}
      ELSE {n \in CollidingNames :
              slugify(n) = sorted[CHOOSE k \in defaults : \A i \in defaults : k <= i].id}

NextEmptied ==
  \/ FirstLoad
  \/ OpenNewLaneModal
  \/ \E name \in LeftmostNames(funnelStages) : SetNewLaneName(name)
  \/ handleCreateNewLane(MaxOrder, MaxCreated)
  \/ \E laneId \in EditableIds(funnelStages) : handleDeleteLane(laneId)
  \/ \E laneId \in EditableIds(funnelStages), direction \in {"left", "right"} :
        moveLane(laneId, direction)

SpecEmptied == InitBoard /\ [][NextEmptied]_vars

----------------------------------------------------------------------------
(* SpecReorder: lanes dragged over the first positions of the board, with  *)
(* the lane VIP created and deleted meanwhile.                             *)

NextReorder ==
  \/ FirstLoad
  \/ OpenNewLaneModal
  \/ SetNewLaneName(NameVip)
  \/ handleCreateNewLane(MaxOrder, 1)
  \/ \E laneId \in EditableIds(funnelStages) : handleDeleteLane(laneId)
  \/ \E result \in LaneDrops(funnelStages, MaxDragIndex) : handleDragEnd(result)

SpecReorder == InitBoard /\ [][NextReorder]_vars

----------------------------------------------------------------------------
(* SpecDelete: a store that holds statuses of default stages only; the     *)
(* user creates the lane VIP, moves leads to it, deletes it and refreshes. *)

NextDelete ==
  \/ LoadLeads
  \/ RemoteStep
  \/ OpenNewLaneModal
  \/ SetNewLaneName(NameVip)
  \/ handleCreateNewLane(MaxOrder, 1)
  \/ \E laneId \in EditableIds(funnelStages) : handleDeleteLane(laneId)
  \/ \E m \in LeadMoves(funnelStages, leads, EditableIds(funnelStages)) :
        moveLeadToStatus(m[1], m[2])

SpecDelete == Init /\ [][NextDelete]_vars

----------------------------------------------------------------------------
(* App: the routes, login and logout                                       *)

\* <Routes>: what the router shows at a path
Rendered(p, authenticated) ==
  IF p = "/crm" THEN (IF authenticated THEN "CRM" ELSE "Login")
  ELSE "BookingForm"

Paths == {"/", "/crm", "/admin"}

\* the credentials typed into the login form
Credentials ==
  { [email |-> "admin@essencia", password |-> pw] : pw \in {"right", "wrong"} }

\* the address bar: <Route path="*"> sends every other path to "/"
Navigate(p) ==
  /\ lastCall' = Call("navigate", <<p>>)
  /\ path' = IF p \in {"/", "/crm"} THEN p ELSE "/"
  /\ UNCHANGED <<isAuthenticated, localStorage, logins, effectPending>>
  /\ UNCHANGED boardVars

\* the page is loaded again: useState(false), the calls in flight are gone
Reload ==
  /\ lastCall' = Call("reload", <<>>)
  /\ isAuthenticated' = FALSE
  /\ logins' = EmptyBag
  /\ effectPending' = TRUE
  /\ UNCHANGED <<localStorage, path>>
  /\ UNCHANGED boardVars

\* React.useEffect(() => { ... }, [])
MountEffect ==
  /\ lastCall' = Call("useEffect", <<>>)
  /\ effectPending
  /\ effectPending' = FALSE
  /\ isAuthenticated' = IF localStorage = "true" THEN TRUE ELSE isAuthenticated
  /\ UNCHANGED <<localStorage, logins, path>>
  /\ UNCHANGED boardVars

\* handleLogin up to the await; <Login/> is what the router shows
handleLogin(credentials) ==
  /\ lastCall' = Call("handleLogin", <<credentials>>)
  /\ Rendered(path, isAuthenticated) = "Login"
  /\ BagCardinality(logins) < MaxLogins
  /\ logins' = logins (+) One([credentials |-> credentials, phase |-> "sent"])
  /\ UNCHANGED <<isAuthenticated, localStorage, effectPending, path>>
  /\ UNCHANGED boardVars

\* authenticateUser answers: success or not
AuthenticateAnswer(req, success) ==
  /\ lastCall' = Call("authenticateUser", <<req, success>>)
  /\ BagIn(req, logins)
  /\ req.phase = "sent"
  /\ logins' = (logins (-) One(req))
                (+) One([req EXCEPT !.phase = IF success THEN "ok" ELSE "no"])
  /\ UNCHANGED <<isAuthenticated, localStorage, effectPending, path>>
  /\ UNCHANGED boardVars

\* faulty variant: the answer of authenticateUser is not looked at
LoginSettle_AnyAnswer(req) ==
  /\ lastCall' = Call("LoginSettle", <<req>>)
  /\ BagIn(req, logins)
  /\ req.phase # "sent"
  /\ logins' = logins (-) One(req)
  /\ isAuthenticated' = TRUE /\ localStorage' = "true"
  /\ UNCHANGED <<effectPending, path>>
  /\ UNCHANGED boardVars

\* handleLogin after the await
LoginSettle(req) ==
  /\ lastCall' = Call("LoginSettle", <<req>>)
  /\ BagIn(req, logins)
  /\ req.phase # "sent"
  /\ logins' = logins (-) One(req)
  /\ IF req.phase = "ok"
     THEN isAuthenticated' = TRUE /\ localStorage' = "true"
     ELSE UNCHANGED <<isAuthenticated, localStorage>>
  /\ UNCHANGED <<effectPending, path>>
  /\ UNCHANGED boardVars

\* faulty variant: the stored item is left behind
handleLogout_KeepsItem ==
  /\ lastCall' = Call("handleLogout", <<>>)
  /\ Rendered(path, isAuthenticated) = "CRM"
  /\ isAuthenticated' = FALSE
  /\ UNCHANGED <<localStorage, logins, effectPending, path>>
  /\ UNCHANGED boardVars

\* onLogout of <CRM/>
handleLogout ==
  /\ lastCall' = Call("handleLogout", <<>>)
  /\ Rendered(path, isAuthenticated) = "CRM"
  /\ isAuthenticated' = FALSE
  /\ localStorage' = NoItem
  /\ UNCHANGED <<logins, effectPending, path>>
  /\ UNCHANGED boardVars

----------------------------------------------------------------------------
(* SpecAuth: App from the first page load, with or without the stored item *)

InitApp ==
  /\ funnelStages = DEFAULT_FUNNEL_STAGES
  /\ leads = <<>>
  /\ isLoading = TRUE
  /\ error = ""
  /\ newLaneName = NameEmpty
  /\ newLaneColor = DefaultColor
  /\ showNewLaneModal = FALSE
  /\ store \in BoardStores
  /\ updates = EmptyBag
  /\ loads = EmptyBag
  /\ lastCall = Call("load", <<>>)
  /\ isAuthenticated = FALSE
  /\ localStorage \in {NoItem, "true"}
  /\ logins = EmptyBag
  /\ effectPending = TRUE
  /\ path \in {"/", "/crm"}

NextAuth ==
  \/ \E p \in Paths : Navigate(p)
  \/ Reload
  \/ MountEffect
  \/ \E credentials \in Credentials : handleLogin(credentials)
  \/ \E req \in BagToSet(logins), success \in BOOLEAN : AuthenticateAnswer(req, success)
  \/ \E req \in BagToSet(logins) : LoginSettle(req)
  \/ handleLogout

SpecAuth == InitApp /\ [][NextAuth]_vars

----------------------------------------------------------------------------
(* Properties                                                              *)

LastOp(op) == lastCall.op = op

\* the order values of the n stages are exactly 0..n-1, each used once
Dense(fs) == Orders(fs) = 0..(Len(fs) - 1) /\ Cardinality(Orders(fs)) = Len(fs)

OrderCount(fs, o) == Cardinality({i \in DOMAIN fs : fs[i].order = o})

\* the step just taken is handleDeleteLane on a stage that was editable
DeletedEditable ==
  /\ lastCall'.op = "handleDeleteLane"
  /\ \E e \in Range(funnelStages) : e.id = lastCall'.args[1] /\ e.editable

\* the step just taken is handleDeleteLane on a stage that was not editable
\* or on an identifier that was not in the registry
DeletedOther ==
  /\ lastCall'.op = "handleDeleteLane"
  /\ ~ \E e \in Range(funnelStages) : e.id = lastCall'.args[1] /\ e.editable

\* the step just taken is a lane drag that was dropped on a destination
LaneDragged ==
  /\ lastCall'.op = "handleDragEnd"
  /\ lastCall'.args[1].type = "LANE"
  /\ lastCall'.args[1].destination # NoDestination

\* the step just taken is handleCreateNewLane with a non-blank name
CreatedLane ==
  /\ lastCall'.op = "handleCreateNewLane"
  /\ \E i \in DOMAIN lastCall'.args[1] : ~IsSpace(lastCall'.args[1][i])

\* C1: each of the seven default stages is always in the registry and is
\* never editable (so it can never be deleted).
C1_DefaultsProtected ==
  \A d \in DefaultIds :
    \E e \in Range(funnelStages) : e.id = d /\ ~e.editable

\* C2: handleDeleteLane on an editable stage removes it from the registry,
\* sets the status of exactly the leads that were in it to "pending", and
\* leaves every other lead and every other stage as it was.
C2_DeleteEditable ==
  [][DeletedEditable =>
       LET laneId == lastCall'.args[1]
       IN  /\ StageIds(funnelStages') = StageIds(funnelStages) \ {laneId}
           /\ \A e \in Range(funnelStages) : e.id # laneId => e \in Range(funnelStages')
           /\ Len(funnelStages') = Len(funnelStages) - 1
           /\ Len(leads') = Len(leads)
           /\ \A i \in DOMAIN leads :
                /\ leads'[i].id = leads[i].id
                /\ leads'[i].status =
                     IF leads[i].status = laneId THEN pending ELSE leads[i].status]_vars

C2_Witness ==
  /\ LastOp("handleDeleteLane")
  /\ lastCall.args[1] = vip
  /\ ~HasStage(funnelStages, vip)
  /\ \E i \in DOMAIN leads :
       leads[i].status = pending /\ StoredStatus(store, leads[i].id) = vip
  /\ \E i \in DOMAIN leads : leads[i].status = contacted

\* C3: handleDeleteLane on a stage that is not editable, or on an identifier
\* that is not in the registry, changes neither the registry, nor the lead
\* cache, nor the error message.
C3_DeleteOtherIsNoOp ==
  [][DeletedOther => UNCHANGED <<funnelStages, leads, error>>]_vars

C3_Witness ==
  /\ LastOp("handleDeleteLane")
  /\ lastCall.args[1] = pending
  /\ \E e \in Range(funnelStages) : e.id = pending /\ ~e.editable
  /\ \E i \in DOMAIN leads : leads[i].status = pending

\* C4: handleCreateNewLane with a non-blank name gives the created stage an
\* order strictly greater than the order of every stage that was in the
\* registry before the call.
C4_CreatedOrderIsGreatest ==
  [][CreatedLane =>
       \A e \in Range(funnelStages) :
         Stage(funnelStages', slugify(lastCall'.args[1])).order > e.order]_vars

\* C5: a lane drag dropped on a destination leaves the set of stage
\* identifiers unchanged and leaves order values that are exactly 0..n-1,
\* each used once.
C5_DragRenumbers ==
  [][LaneDragged =>
       /\ StageIds(funnelStages') = StageIds(funnelStages)
       /\ Len(funnelStages') = Len(funnelStages)
       /\ Dense(funnelStages')]_vars

C5_Witness ==
  /\ LastOp("handleDragEnd")
  /\ lastCall.args[1].type = "LANE"
  /\ lastCall.args[1].destination # NoDestination
  /\ lastCall.args[1].source.index # lastCall.args[1].destination.index
  /\ Len(funnelStages) > Cardinality(DefaultIds)
  /\ Dense(funnelStages)

\* C6 as stated: a moveLane that reorders preserves the set of stage
\* identifiers and produces a dense 0..n-1 order.
C6_MoveLaneDense ==
  [][(lastCall'.op = "moveLane" /\ funnelStages' # funnelStages) =>
       /\ StageIds(funnelStages') = StageIds(funnelStages)
       /\ Dense(funnelStages')]_vars

\* C6 amended: moveLane preserves the set of stage identifiers and the
\* order values in use, each as often as before; it does not renumber, so
\* the order is dense after the move exactly when it was dense before.
C6_MoveLaneKeepsOrders ==
  [][lastCall'.op = "moveLane" =>
       /\ StageIds(funnelStages') = StageIds(funnelStages)
       /\ Len(funnelStages') = Len(funnelStages)
       /\ \A o \in Orders(funnelStages) \cup Orders(funnelStages') :
            OrderCount(funnelStages', o) = OrderCount(funnelStages, o)
       /\ Dense(funnelStages') <=> Dense(funnelStages)]_vars

C6_Witness ==
  /\ lastCall.op = "moveLane"
  /\ lastCall.args[2] = "right"
  /\ FindIndex(getSortedStages(funnelStages), lastCall.args[1]) = 1
  /\ ~Dense(funnelStages)

\* C7: no two stages in the registry have the same order value.
C7_OrdersUnique == Cardinality(Orders(funnelStages)) = Len(funnelStages)

\* C8 as stated: in every reachable state the order values of the n stages
\* are exactly 0..n-1.
C8_AlwaysDense == Dense(funnelStages)

\* C8 amended: the order values are exactly 0..n-1 in the registry the board
\* mounts with and right after every lane drag reorder; no other operation
\* renumbers, so a deletion leaves the gap of the deleted stage.
C8_DenseAfterRenumbering ==
  (\/ LastOp("mount")
   \/ /\ LastOp("handleDragEnd")
      /\ lastCall.args[1].type = "LANE"
      /\ lastCall.args[1].destination # NoDestination)
  => Dense(funnelStages)

C8_Witness ==
  /\ LastOp("handleDragEnd")
  /\ lastCall.args[1].type = "LANE"
  /\ lastCall.args[1].destination # NoDestination
  /\ HasStage(funnelStages, open_case) /\ ~HasStage(funnelStages, vip)
  /\ \E i \in DOMAIN leads :
       leads[i].status = pending /\ StoredStatus(store, leads[i].id) = vip
  /\ Dense(funnelStages)

\* C9: dropping a lead on the stage it is in, at the index it has, issues no
\* remote update and changes neither the lead cache, nor the registry, nor
\* the error message.
C9_DropInPlaceIsNoOp ==
  [][(/\ lastCall'.op = "handleDragEnd"
      /\ lastCall'.args[1].type # "LANE"
      /\ lastCall'.args[1].destination = lastCall'.args[1].source)
     => UNCHANGED <<leads, funnelStages, error, updates, store, loads>>]_vars

C9_Witness ==
  /\ LastOp("handleDragEnd")
  /\ lastCall.args[1].type = "LEAD"
  /\ lastCall.args[1].destination = lastCall.args[1].source
  /\ \E i \in DOMAIN leads :
       /\ leads[i].id = lastCall.args[1].draggableId
       /\ leads[i].status = lastCall.args[1].source.droppableId

\* C10: a drop with no destination, of a lane or of a lead, issues no remote
\* update and changes neither the lead cache, nor the registry, nor the
\* error message.
C10_DropNowhereIsNoOp ==
  [][(/\ lastCall'.op = "handleDragEnd"
      /\ lastCall'.args[1].destination = NoDestination)
     => UNCHANGED <<leads, funnelStages, error, updates, store, loads>>]_vars

C10_Witness ==
  /\ LastOp("handleDragEnd")
  /\ lastCall.args[1].type = "LEAD"
  /\ lastCall.args[1].destination = NoDestination
  /\ leads # <<>>

\* the step just taken hands a lead move to the remote store
MoveRequested ==
  \/ lastCall'.op = "moveLeadToStatus"
  \/ /\ lastCall'.op = "handleDragEnd"
     /\ updates' # updates

\* the step just taken is the handler resuming after its update has failed
MoveFailed ==
  /\ lastCall'.op = "UpdateSettle"
  /\ lastCall'.args[1].phase = "err"

\* C11: a lead move whose remote update fails sets the error message to the
\* update-failure text and never touches the lead cache: neither the step
\* that requests the move nor the step that handles the failure changes
\* it, so the lead keeps the status it had.
C11_FailedMoveKeepsCache ==
  [][/\ MoveRequested => leads' = leads
     /\ MoveFailed => (leads' = leads /\ error' = UpdateError)]_vars

C11_Witness ==
  /\ LastOp("UpdateSettle")
  /\ lastCall.args[1].phase = "err"
  /\ error = UpdateError
  /\ \E i \in DOMAIN leads :
       /\ leads[i].id = lastCall.args[1].id
       /\ leads[i].status # lastCall.args[1].status
       /\ StoredStatus(store, leads[i].id) = leads[i].status

\* C12: the cache is patched only once the remote update of the move has
\* succeeded: the step that requests a move leaves the cache alone, and a
\* step that resumes after the update changes the cache only when the
\* store has answered success; the patch then gives the moved lead the new
\* status and keeps every other lead, the order and the length of the list.
C12_PatchAfterSuccess ==
  [][/\ MoveRequested => leads' = leads
     /\ (lastCall'.op = "UpdateSettle" /\ leads' # leads) =>
          LET req == lastCall'.args[1] IN
            /\ req.phase = "ok"
            /\ BagIn(req, updates)
            /\ Len(leads') = Len(leads)
            /\ \A i \in DOMAIN leads :
                 IF leads[i].id = req.id
                 THEN leads'[i] = [leads[i] EXCEPT !.status = req.status]
                 ELSE leads'[i] = leads[i]]_vars

C12_Witness ==
  /\ LastOp("UpdateSettle")
  /\ lastCall.args[1].phase = "ok"
  /\ \E i, j \in DOMAIN leads :
       /\ leads[i].id = lastCall.args[1].id
       /\ leads[i].status = lastCall.args[1].status
       /\ StoredStatus(store, leads[i].id) = leads[i].status
       /\ leads[j].id # leads[i].id
       /\ leads[j].status # leads[i].status

\* the identifiers of a list of leads or rows, in the order of the list
Ids(rows) == [i \in DOMAIN rows |-> rows[i].id]

\* C13: no board operation adds or removes a lead. Every step other than
\* the completion of a load keeps the identifiers of the cached leads, in
\* their order, and changes at most the status of a lead; and no step
\* removes a row from the remote store.
C13_LeadsNeitherAddedNorRemoved ==
  [][/\ lastCall'.op # "LoadSettle" =>
          /\ Ids(leads') = Ids(leads)
          /\ \A i \in DOMAIN leads :
               leads'[i] = [leads[i] EXCEPT !.status = leads'[i].status]
     /\ \A i \in DOMAIN store :
          \E j \in DOMAIN store' : store'[j].id = store[i].id]_vars

C13_Witness ==
  /\ LastOp("handleDeleteLane")
  /\ lastCall.args[1] = vip
  /\ ~HasStage(funnelStages, vip)
  /\ Ids(leads) = <<"l2", "l1">>
  /\ \A i \in DOMAIN leads :
       leads[i].status = pending /\ StoredStatus(store, leads[i].id) = vip

\* C14: when the select of loadLeads fails, the handler catches the failure:
\* the error message becomes the load-failure text, the lead cache keeps
\* the content it had, and the loading flag is false afterwards.
C14_FailedLoadKeepsCache ==
  [][(lastCall'.op = "LoadSettle" /\ lastCall'.args[1].phase = "err")
     => (error' = LoadError /\ leads' = leads /\ isLoading' = FALSE)]_vars

C14_Witness ==
  /\ LastOp("LoadSettle")
  /\ lastCall.args[1].phase = "err"
  /\ error = LoadError
  /\ ~isLoading
  /\ Len(leads) = Len(store)
  /\ \E i \in DOMAIN leads : leads[i].status # StoredStatus(store, leads[i].id)

\* the step just taken is loadLeads resuming with the rows of the store
LoadSucceeded ==
  /\ lastCall'.op = "LoadSettle"
  /\ lastCall'.args[1].phase = "data"

\* C15: after a load succeeds the cache holds exactly the records the store
\* returned, newest first: the answer of the store is its rows, each once,
\* in descending creation time, and the cache has one lead for each row of
\* the answer, in the same order, with the status of the row, or 'pending'
\* when the row has no status.
C15_LoadMirrorsStore ==
  [][/\ lastCall'.op = "StoreSelect" =>
          \E req \in BagToSet(loads') :
            /\ req.phase = "data"
            /\ Len(req.rows) = Len(store)
            /\ Range(req.rows) = Range(store)
            /\ \A i, j \in DOMAIN req.rows :
                 i < j => req.rows[i].created_at > req.rows[j].created_at
     /\ LoadSucceeded =>
          LET rows == lastCall'.args[1].rows IN
            /\ Ids(leads') = Ids(rows)
            /\ \A i \in DOMAIN rows :
                 /\ leads'[i].created_at = rows[i].created_at
                 /\ leads'[i].status =
                      (IF rows[i].status = <<>> THEN pending ELSE rows[i].status)]_vars

C15_Witness ==
  /\ LastOp("LoadSettle")
  /\ lastCall.args[1].phase = "data"
  /\ Len(leads) = 2
  /\ leads[1].created_at > leads[2].created_at
  /\ \E i \in DOMAIN leads :
       leads[i].status = pending /\ StoredStatus(store, leads[i].id) = NoStatus

\* C16: each successful createTrialRegistration adds exactly one row to the
\* remote store, and the row has the status 'pending', an identifier no
\* other row has and the latest creation time: the payload carries no
\* status, identifier or creation time, so the defaults of the table
\* apply. A submission that fails adds nothing.
C16_IntakeAddsOnePending ==
  [][lastCall'.op = "createTrialRegistration" =>
       IF lastCall'.args[2] = "ok"
       THEN /\ Len(store') = Len(store) + 1
            /\ SubSeq(store', 1, Len(store)) = store
            /\ store'[Len(store')].status = <<"p","e","n","d","i","n","g">>
            /\ \A i \in DOMAIN store :
                 /\ store[i].id # store'[Len(store')].id
                 /\ store[i].created_at < store'[Len(store')].created_at
            /\ {"id", "status", "created_at"} \cap DOMAIN lastCall'.args[1] = {}
       ELSE store' = store]_vars

C16_Witness ==
  /\ LastOp("createTrialRegistration")
  /\ lastCall.args[2] = "ok"
  /\ Len(store) = Len(leads) + 1
  /\ leads # <<>>
  /\ store[Len(store)].status = pending
  /\ store[Len(store)].id \notin Range(Ids(leads))

\* the step just taken drops a lead on the lane it is in, at another index
DroppedInOwnLane ==
  /\ lastCall'.op = "handleDragEnd"
  /\ lastCall'.args[1].type = "LEAD"
  /\ lastCall'.args[1].destination # NoDestination
  /\ lastCall'.args[1].destination.droppableId = lastCall'.args[1].source.droppableId
  /\ lastCall'.args[1].destination.index # lastCall'.args[1].source.index

Exchanged(seq, a, b) ==
  [i \in DOMAIN seq |-> IF i = a THEN seq[b] ELSE IF i = b THEN seq[a] ELSE seq[i]]

\* the 1-based position of a lane in a list of stages, 0 when it is not there
PositionOf(stages, laneId) ==
  IF \E i \in DOMAIN stages : stages[i].id = laneId
  THEN CHOOSE i \in DOMAIN stages : stages[i].id = laneId
  ELSE 0

\* C19: moveLane on a lane that has a neighbour on the chosen side
\* exchanges the order values of the two and of no other stage, so that
\* the two swap places in the sorted list; on the first lane moved left,
\* the last lane moved right or an unknown identifier the registry is
\* unchanged; and moving a lane left and then right gives the registry
\* back.
C19_MoveLaneSwapsNeighbours ==
  [][lastCall'.op = "moveLane" =>
       LET laneId == lastCall'.args[1]
           sorted == getSortedStages(funnelStages)
           k == PositionOf(sorted, laneId)
           t == IF lastCall'.args[2] = "left" THEN k - 1 ELSE k + 1
       IN  IF k = 0 \/ t < 1 \/ t > Len(sorted)
           THEN funnelStages' = funnelStages
           ELSE /\ Ids(funnelStages') = Ids(funnelStages)
                /\ \A i \in DOMAIN funnelStages :
                     funnelStages'[i].order =
                       (IF funnelStages[i].id = laneId THEN sorted[t].order
                        ELSE IF funnelStages[i].id = sorted[t].id THEN sorted[k].order
                        ELSE funnelStages[i].order)
                /\ Ids(getSortedStages(funnelStages')) = Exchanged(Ids(sorted), k, t)
                /\ lastCall'.args[2] = "left" =>
                     MoveLaneResult(funnelStages', laneId, "right") = funnelStages]_vars

\* the sequence without its element at position k
Without(seq, k) == SubSeq(seq, 1, k - 1) \o SubSeq(seq, k + 1, Len(seq))

\* C18: a lane dragged from position s to position d of the sorted list is
\* at position d of the new sorted list, and the other stages keep their
\* relative order; when s = d the sorted sequence of identifiers is the
\* one before the drag.
C18_DragPlacesLane ==
  [][LaneDragged =>
       LET s == lastCall'.args[1].source.index + 1
           d == lastCall'.args[1].destination.index + 1
           old == Ids(getSortedStages(funnelStages))
           new == Ids(getSortedStages(funnelStages'))
       IN  /\ Len(new) = Len(old)
           /\ new[d] = old[s]
           /\ Without(new, d) = Without(old, s)
           /\ s = d => new = old]_vars

C18_Witness ==
  /\ LastOp("handleDragEnd")
  /\ lastCall.args[1].type = "LANE"
  /\ lastCall.args[1].source.index = 0
  /\ lastCall.args[1].destination # NoDestination
  /\ lastCall.args[1].destination.index = 2
  /\ HasStage(funnelStages, vip)
  /\ LaneDraggableId(getSortedStages(funnelStages)[3].id) = lastCall.args[1].draggableId
  /\ getSortedStages(funnelStages)[1].id # pending

\* the identifiers the names typed into the form are to be stored under
ExpectedId(name) ==
  CASE name = NameVip -> <<"v","i","p">>
    [] name = NameOpen -> <<"o","p","e","n","_","c","a","s","e">>
    [] name = NamePending -> <<"p","e","n","d","i","n","g">>
    [] name = NameNoShow -> <<"n","o","_","s","h","o","w">>
    [] OTHER -> <<>>

\* C20: handleCreateNewLane with an empty or whitespace-only name changes
\* nothing: no stage is added and the registry, the lead cache and the
\* new-lane form stay as they are. With a non-blank name the new stage is
\* in the registry under the lower-cased name with each run of whitespace
\* replaced by one underscore, with the name as its title and the editable
\* flag set.
C20_CreateNeedsName ==
  [][lastCall'.op = "handleCreateNewLane" =>
       IF \A i \in DOMAIN lastCall'.args[1] : IsSpace(lastCall'.args[1][i])
       THEN UNCHANGED <<funnelStages, leads, newLaneName, newLaneColor, showNewLaneModal>>
       ELSE /\ ExpectedId(lastCall'.args[1]) # <<>>
            /\ \E i \in DOMAIN funnelStages' :
                 /\ funnelStages'[i].id = ExpectedId(lastCall'.args[1])
                 /\ funnelStages'[i].title = lastCall'.args[1]
                 /\ funnelStages'[i].editable
            /\ leads' = leads]_vars

C20_Witness ==
  /\ LastOp("handleCreateNewLane")
  /\ lastCall.args[1] = NameOpen
  /\ \E i \in DOMAIN funnelStages :
       /\ funnelStages[i].id = <<"o","p","e","n","_","c","a","s","e">>
       /\ funnelStages[i].editable
  /\ ~showNewLaneModal
  /\ leads # <<>>

\* C21: handleCreateNewLane with a non-blank name makes the registry one
\* stage longer and leaves every stage that was in it as it was (title,
\* color, order, editable flag), whatever name the user has typed.
C21_CreateAddsOneStage ==
  [][CreatedLane =>
       /\ Len(funnelStages') = Len(funnelStages) + 1
       /\ \A i \in DOMAIN funnelStages :
            \E j \in DOMAIN funnelStages' : funnelStages'[j] = funnelStages[i]]_vars

\* C22: the status of every lead in the cache is the identifier of a stage
\* that is in the registry, so every cached lead is shown in a column.
C22_LeadsHaveColumn ==
  \A i \in DOMAIN leads : HasStage(funnelStages, leads[i].status)

\* the status the board shows for a stored status
Shown(status) == IF status = NoStatus THEN pending ELSE status

\* C23: whenever no remote request is in flight and no request has failed
\* (the error message, set by every failure, is still empty), the status of
\* each cached lead is the status the remote store holds for it.
C23_CacheMatchesStore ==
  (updates = EmptyBag /\ loads = EmptyBag /\ error = "")
  => \A i \in DOMAIN leads :
       leads[i].status = Shown(StoredStatus(store, leads[i].id))

\* C24: handleDeleteLane changes lead statuses in the cache only: it hands
\* no request to the remote store and no row of the store changes, so a
\* lead it reassigns to 'pending' has in the store the status it had there
\* before, the identifier of the deleted stage.
C24_DeleteIsLocal ==
  [][lastCall'.op = "handleDeleteLane" =>
       /\ updates' = updates
       /\ loads' = loads
       /\ store' = store
       /\ \A i \in DOMAIN leads :
            (leads'[i].status # leads[i].status /\
             StoredStatus(store, leads[i].id) = lastCall'.args[1])
            => StoredStatus(store', leads[i].id) = lastCall'.args[1]]_vars

C24_Witness ==
  /\ LastOp("handleDeleteLane")
  /\ lastCall.args[1] = vip
  /\ ~HasStage(funnelStages, vip)
  /\ updates = EmptyBag
  /\ \E i, j \in DOMAIN leads :
       /\ leads[i].status = pending /\ StoredStatus(store, leads[i].id) = vip
       /\ leads[j].status = contacted /\ StoredStatus(store, leads[j].id) = contacted

\* the step just taken is a stage operation other than a deletion
StageOperation ==
  \/ lastCall'.op = "handleCreateNewLane"
  \/ lastCall'.op = "moveLane"
  \/ lastCall'.op = "handleDragEnd" /\ lastCall'.args[1].type = "LANE"

\* the step just taken belongs to a lead move: its request, the answer of
\* the store, or the handler resuming after success or failure
LeadOperation ==
  \/ lastCall'.op \in {"moveLeadToStatus", "StoreUpdate", "StoreUpdateFail", "UpdateSettle"}
  \/ lastCall'.op = "handleDragEnd" /\ lastCall'.args[1].type = "LEAD"

\* C25: creating a stage, dragging a lane and moveLane leave the lead cache
\* as it is and hand no request to the remote store; a lead move, whether
\* it succeeds or fails, leaves the stage registry as it is.
C25_StagesAndLeadsApart ==
  [][/\ StageOperation => UNCHANGED <<leads, store, updates, loads, isLoading, error>>
     /\ LeadOperation => funnelStages' = funnelStages]_vars

C25_Witness ==
  /\ LastOp("moveLane")
  /\ lastCall.args[2] = "right"
  /\ getSortedStages(funnelStages)[2].id = lastCall.args[1]
  /\ lastCall.args[1] = pending
  /\ updates # EmptyBag
  /\ \E i \in DOMAIN leads : leads[i].status # StoredStatus(store, leads[i].id)

\* C26: once the error message is set it is never empty again: no step,
\* a later successful refresh or lead move included, clears it.
C26_ErrorStays ==
  [][error # "" => error' # ""]_vars

C26_Witness ==
  /\ LastOp("LoadSettle")
  /\ lastCall.args[1].phase = "data"
  /\ error = UpdateError
  /\ leads # <<>>

\* the operations the rendered board offers: refresh, stage operations and
\* lead moves
BoardOps ==
  {"loadLeads", "OpenNewLaneModal", "CloseNewLaneModal", "setNewLaneName",
   "setNewLaneColor", "handleCreateNewLane", "handleDeleteLane", "moveLane",
   "moveLeadToStatus", "handleDragEnd"}

\* C27: the loading flag is true exactly while a load is in flight, and at
\* most one load is in flight; every load that returns, with data or with
\* a failure, sets the flag to false; and no refresh, stage operation or
\* lead move starts while the flag is true.
C27_LoadingWhileInFlight ==
  [][/\ isLoading <=> BagCardinality(loads) = 1
     /\ isLoading' <=> BagCardinality(loads') = 1
     /\ BagCardinality(loads') <= 1
     /\ lastCall'.op = "LoadSettle" => (isLoading /\ ~isLoading')
     /\ lastCall'.op \in BoardOps => ~isLoading]_vars

C27_Witness ==
  /\ LastOp("loadLeads")
  /\ isLoading
  /\ BagIn(LoadRequest("sent", <<>>), loads)
  /\ leads # <<>>
  /\ updates # EmptyBag

\* C28: the CRM board, and with it the logout button, is there only at
\* /crm while isAuthenticated is true; isAuthenticated becomes true only
\* when handleLogin resumes after authenticateUser has answered success,
\* or in the mount effect when the stored item is 'true'; a login that
\* fails leaves isAuthenticated and the stored item as they are.
C28_CrmNeedsAuthentication ==
  [][/\ lastCall'.op = "handleLogout" => (isAuthenticated /\ path = "/crm")
     /\ (~isAuthenticated /\ isAuthenticated') =>
          \/ lastCall'.op = "LoginSettle" /\ lastCall'.args[1].phase = "ok"
          \/ lastCall'.op = "useEffect" /\ localStorage = "true"
     /\ (lastCall'.op = "LoginSettle" /\ lastCall'.args[1].phase = "no") =>
          UNCHANGED <<isAuthenticated, localStorage>>]_vars

C28_Witness ==
  /\ LastOp("LoginSettle")
  /\ lastCall.args[1].phase = "no"
  /\ ~isAuthenticated
  /\ localStorage = NoItem
  /\ Rendered(path, isAuthenticated) = "Login"

\* C29: the stored item and the in-memory flag agree after each login and
\* logout: a login that succeeds sets both, logout clears both, and once
\* the mount effect has run the in-memory flag is true exactly when the
\* stored item is 'true', so a reload shows the CRM after a login and the
\* login screen after a logout.
C29_FlagsAgree ==
  [][/\ (lastCall'.op = "LoginSettle" /\ lastCall'.args[1].phase = "ok") =>
          (isAuthenticated' /\ localStorage' = "true")
     /\ lastCall'.op = "handleLogout" =>
          (~isAuthenticated' /\ localStorage' = NoItem)
     /\ ~effectPending' => (isAuthenticated' <=> localStorage' = "true")]_vars

C29_Witness ==
  /\ LastOp("handleLogout")
  /\ ~isAuthenticated
  /\ localStorage = NoItem
  /\ ~effectPending
  /\ path = "/crm"

====
